---- MODULE Spec2Model ----
(***************************************************************************)
(* Model of silver/documents_generator.py: DocumentsGenerator.             *)
(*                                                                         *)
(* generate() either bills every customer (_generate_all) or bills one     *)
(* subscription right away (_generate_for_single_subscription_now).  The   *)
(* Django models (Customer, Subscription, Provider, Invoice/Proforma) are  *)
(* collaborators: their operations are modelled by the operators           *)
(* should_be_billed, add_total_value_to_document, end and issue.  Every     *)
(* collaborator call may raise; the generator catches nothing, so an       *)
(* exception leaves generate() at once.  The loops over querysets and over *)
(* the dict cached_documents have no defined order: each iteration takes   *)
(* any element that is left.                                               *)
(***************************************************************************)
EXTENDS Naturals, Integers, FiniteSets, Sequences, TLC

\* ---------------------------------------------------------------- bounds
NumCustomers == 2
NumProviders == 2
NumSubscriptions == 3
MaxRuns == 2

Customers == 1..NumCustomers
Providers == 1..NumProviders
Subscriptions == 1..NumSubscriptions

\* Subscription.state values; only the first two pass the state__in filter.
SubscriptionStates == {"active", "canceled", "ended", "inactive"}
BillableStates == {"active", "canceled"}
DocumentStates == {"draft", "issued"}

\* no customer, no subscription (None)
NoOne == 0

\* A document is identified by the run that created it and the subscription
\* it was created for (the subscription argument of _create_document).
NoDoc == <<0, 0>>
DocIds == (1..MaxRuns) \X Subscriptions

VARIABLES
    consolidated_billing,    \* Customer.consolidated_billing, per customer
    default_document_state,  \* Provider.default_document_state, per provider
    sub_customer,            \* Subscription.customer, per subscription
    sub_provider,            \* Subscription.plan.provider, per subscription
    billable,                \* what should_be_billed(billing_date) answers
    today,                   \* the clock: what timezone.now().date() answers
    parked,                  \* customer -> the locals of its suspended call
    interleaved,             \* history: a call went on after another one's work
    state,                   \* Subscription.state as persisted
    docs,                    \* the billing documents: document id -> record
    runs,                    \* number of generate() calls made so far
    pc,                      \* position of the generator
    entry,                   \* entry point of the current run: all | single
    now,                     \* local variable now: the clock as read on entry
    billing_date,            \* billing_date of _generate_all, now of a single run
    custTodo,                \* customers the customer loop has not reached
    customer,                \* loop variable of _generate_all
    subTodo,                 \* subscriptions the subscription loop has not reached
    subscription,            \* loop variable or argument: current subscription
    document,                \* local variable document (a document id)
    cached_documents,        \* provider -> document id (NoDoc: not cached)
    issueTodo,               \* providers the issuing loop has not reached
    state0,                  \* history: state when the current run was entered
    docs0,                   \* history: docs when the current run was entered
    end_calls,               \* history: end() calls of the current run
    asked                    \* history: dates should_be_billed was asked about

config == <<consolidated_billing, default_document_state, sub_customer,
            sub_provider, billable>>
\* what no step of generate() changes: the fields it only reads, the clock
\* and the bookkeeping of a scheduler that runs the customers side by side
fixed == <<config, today, parked, interleaved>>
\* what a call of generate() sets on entry and never changes afterwards
per_run == <<state0, docs0, now, billing_date>>
vars == <<consolidated_billing, default_document_state, sub_customer,
          sub_provider, billable, today, parked, interleaved, state, docs,
          runs, pc, entry, now, billing_date, custTodo, customer, subTodo,
          subscription, document, cached_documents, issueTodo, state0, docs0,
          end_calls, asked>>

\* ------------------------------------------------------------- dates

\* A date is the number of its day in the year 2023 (1 = January 1).
DaysInMonth == <<31, 28, 31, 30, 31, 30, 31, 31, 30, 31, 30, 31>>

RECURSIVE MonthStart(_)
MonthStart(m) == IF m = 1 THEN 1 ELSE MonthStart(m - 1) + DaysInMonth[m - 1]

MonthOf(d) ==
    CHOOSE m \in 1..12 :
        MonthStart(m) <= d /\ d < MonthStart(m) + DaysInMonth[m]

\* dt.date(now.year, now.month, 1)
FirstOfMonth(d) == MonthStart(MonthOf(d))

\* the date of month m, day k, and the <<month, day>> of a date
Date(m, k) == MonthStart(m) + k - 1
MonthDay(d) == <<MonthOf(d), d - MonthStart(MonthOf(d)) + 1>>

\* the days on which the generator is started: June 1 and June 16, 2023
Clock == {152, 167}

\* customer.payment_due_days
payment_due_days(c) == IF c % 2 = 1 THEN 15 ELSE 0

\* ------------------------------------------------------- collaborators

\* Subscription.should_be_billed(billing_date): an opaque predicate of the
\* subscription and the billing cycle; billable holds its answer for the one
\* cycle the model covers.
should_be_billed(s, date) == billable[s]

\* provider.flow / provider.model_corresponding_to_default_flow
flow(p) == IF p % 2 = 1 THEN "invoice" ELSE "proforma"

NoCharges == [s \in Subscriptions |-> 0]

\* mutant of create_document: the payment_due_days are not added
create_document_due_at_once(p, c, s, date) ==
    [provider |-> p, customer |-> c, kind |-> flow(p), state |-> "draft",
     due_date |-> date, charges |-> NoCharges, billing_dates |-> {},
     created_for |-> s, run |-> runs, entry |-> entry, issue_calls |-> 0,
     created_on |-> today]

\* _create_document(provider, customer, subscription, billing_date):
\* DocumentModel.objects.create(provider=, customer=, due_date=), a new draft.
\* billing_dates, created_for, run, entry, issue_calls and created_on (the
\* clock at the time of the call) are history fields.
create_document(p, c, s, date) ==
    [provider |-> p, customer |-> c, kind |-> flow(p), state |-> "draft",
     due_date |-> date + payment_due_days(c), charges |-> NoCharges,
     billing_dates |-> {},
     created_for |-> s, run |-> runs, entry |-> entry, issue_calls |-> 0,
     created_on |-> today]

\* subscription.add_total_value_to_document(billing_date, <flow>=document);
\* billing_dates remembers the billing_date arguments
add_total_value_to_document(ds, d, s, date) ==
    [ds EXCEPT ![d].charges[s] = @ + 1,
               ![d].billing_dates = @ \cup {date}]

\* document.issue(); document.save()
issue(ds, d) ==
    [ds EXCEPT ![d].state = "issued", ![d].issue_calls = @ + 1]

\* document.issue() done in memory, document.save() raised
issue_unsaved(ds, d) ==
    [ds EXCEPT ![d].issue_calls = @ + 1]

\* subscription.end(); subscription.save()
end(st, s) == [st EXCEPT ![s] = "ended"]

\* customer.subscriptions.filter(state__in=['active', 'canceled'])
filter(c) ==
    {s \in Subscriptions : sub_customer[s] = c /\ state[s] \in BillableStates}

NoCalls == [s \in Subscriptions |-> 0]

NoCache == [p \in Providers |-> NoDoc]

\* ------------------------------------------------------------- Init

TypeOK ==
    /\ consolidated_billing \in [Customers -> BOOLEAN]
    /\ default_document_state \in [Providers -> DocumentStates]
    /\ sub_customer \in [Subscriptions -> Customers]
    /\ sub_provider \in [Subscriptions -> Providers]
    /\ billable \in [Subscriptions -> BOOLEAN]
    /\ today \in 1..365
    /\ DOMAIN parked \subseteq Customers
    /\ interleaved \in BOOLEAN
    /\ now \in 0..365
    /\ billing_date \in 0..365
    /\ asked \subseteq 1..365
    /\ state \in [Subscriptions -> SubscriptionStates]
    /\ runs \in 0..MaxRuns
    /\ custTodo \subseteq Customers
    /\ subTodo \subseteq Subscriptions
    /\ issueTodo \subseteq Providers
    /\ customer \in Customers \cup {NoOne}
    /\ subscription \in Subscriptions \cup {NoOne}
    /\ DOMAIN docs \subseteq DocIds
    /\ document \in DOMAIN docs \cup {NoDoc}
    /\ cached_documents \in [Providers -> DOMAIN docs \cup {NoDoc}]
    /\ state0 \in [Subscriptions -> SubscriptionStates]
    /\ DOMAIN docs0 \subseteq DOMAIN docs
    /\ end_calls \in [Subscriptions -> 0..1]

\* The database the generator starts on.  All subscriptions but the last
\* belong to customer 1 and all but the second to provider 1; either the last
\* subscription belongs to another customer or the second one to another
\* provider.  So one customer has two subscriptions of one provider, and
\* either a third of another provider or a neighbour customer with a
\* subscription of the same provider.  Flags that nothing reads (of a
\* customer or provider without subscriptions) are fixed; should_be_billed
\* is never asked about a subscription that fails the state filter of a full
\* run, its answer is fixed to false there.  The clock shows a day of clock.
Started(clock) ==
    /\ sub_customer \in {f \in [Subscriptions -> Customers] :
                            \A s \in Subscriptions :
                                s < NumSubscriptions => f[s] = 1}
    /\ consolidated_billing \in
           {f \in [Customers -> BOOLEAN] :
                \A c \in Customers :
                    (\A s \in Subscriptions : sub_customer[s] # c) => ~f[c]}
    /\ sub_provider \in {f \in [Subscriptions -> Providers] :
                            /\ \A s \in Subscriptions : s # 2 => f[s] = 1
                            /\ f[2] = 1 <=> sub_customer[NumSubscriptions] # 1}
    /\ default_document_state \in
           {f \in [Providers -> DocumentStates] :
                \A p \in Providers :
                    (\A s \in Subscriptions : sub_provider[s] # p)
                        => f[p] = "draft"}
    /\ state \in [Subscriptions -> {"active", "canceled", "inactive"}]
    /\ billable \in {f \in [Subscriptions -> BOOLEAN] :
                        \A s \in Subscriptions :
                            state[s] \notin BillableStates => ~f[s]}
    /\ today \in clock
    /\ parked = <<>>
    /\ interleaved = FALSE
    /\ docs = <<>>
    /\ runs = 0
    /\ pc = "idle"
    /\ entry = "none"
    /\ now = 0
    /\ billing_date = 0
    /\ custTodo = {}
    /\ customer = NoOne
    /\ subTodo = {}
    /\ subscription = NoOne
    /\ document = NoDoc
    /\ cached_documents = NoCache
    /\ issueTodo = {}
    /\ state0 = state
    /\ docs0 = docs
    /\ end_calls = NoCalls
    /\ asked = {}

\* generate() is called on June 1 or on June 16
Init == Started(Clock)

\* generate() can be called: no call was made yet or the last one returned.
\* A call that raised ends the modelled behaviour.
Resting == pc \in {"idle", "done"}

\* ------------------------------------------------- generate / _generate_all

\* generate(): subscription is None => _generate_all()
generate_all ==
    /\ Resting
    /\ runs < MaxRuns
    /\ runs' = runs + 1
    /\ entry' = "all"
    /\ now' = today
    /\ billing_date' = FirstOfMonth(now')
    /\ custTodo' = Customers
    /\ customer' = NoOne
    /\ subTodo' = {}
    /\ subscription' = NoOne
    /\ document' = NoDoc
    /\ cached_documents' = NoCache
    /\ issueTodo' = {}
    /\ pc' = "all_loop"
    /\ state0' = state
    /\ docs0' = docs
    /\ end_calls' = NoCalls
    /\ asked' = {}
    /\ UNCHANGED <<fixed, state, docs>>

\* mutant of next_customer: the billing date is computed for each customer
next_customer_reads_clock ==
    /\ pc = "all_loop"
    /\ \E c \in custTodo :
        /\ customer' = c
        /\ custTodo' = custTodo \ {c}
        /\ subTodo' = filter(c)
        /\ cached_documents' = NoCache
        /\ pc' = IF consolidated_billing[c] THEN "cons_loop" ELSE "sep_loop"
    /\ now' = today
    /\ billing_date' = FirstOfMonth(now')
    /\ subscription' = NoOne
    /\ document' = NoDoc
    /\ issueTodo' = {}
    /\ UNCHANGED <<state0, docs0, asked, end_calls, fixed, state, docs, runs,
                   entry>>

\* mutant of next_customer: cached_documents outlives the customer
next_customer_keeps_cache ==
    /\ pc = "all_loop"
    /\ \E c \in custTodo :
        /\ customer' = c
        /\ custTodo' = custTodo \ {c}
        /\ subTodo' = filter(c)
        /\ pc' = IF consolidated_billing[c] THEN "cons_loop" ELSE "sep_loop"
    /\ subscription' = NoOne
    /\ document' = NoDoc
    /\ issueTodo' = {}
    /\ UNCHANGED <<per_run, asked, end_calls, fixed, state, docs, runs, entry,
                   cached_documents>>

\* for customer in Customer.objects.all(): dispatch on consolidated_billing
next_customer ==
    /\ pc = "all_loop"
    /\ \E c \in custTodo :
        /\ customer' = c
        /\ custTodo' = custTodo \ {c}
        /\ subTodo' = filter(c)
        /\ cached_documents' = NoCache
        /\ pc' = IF consolidated_billing[c] THEN "cons_loop" ELSE "sep_loop"
    /\ subscription' = NoOne
    /\ document' = NoDoc
    /\ issueTodo' = {}
    /\ UNCHANGED <<per_run, asked, end_calls, fixed, state, docs, runs,
                   entry>>

\* the customer loop is exhausted: generate() returns
all_done ==
    /\ pc = "all_loop"
    /\ custTodo = {}
    /\ pc' = "done"
    /\ customer' = NoOne
    /\ UNCHANGED <<per_run, asked, end_calls, fixed, state, docs, runs, entry,
                   custTodo, subTodo, subscription, document,
                   cached_documents, issueTodo>>

\* ------------------------- _generate_for_user_with_consolidated_billing

\* mutant of cons_skip: the continue is missing, the subscription is billed
cons_skip_bills ==
    /\ pc = "cons_loop"
    /\ \E s \in subTodo :
        /\ ~should_be_billed(s, billing_date)
        /\ subTodo' = subTodo \ {s}
        /\ subscription' = s
        /\ docs' = docs @@ (<<runs, s>> :>
                       create_document(sub_provider[s], customer, s,
                                       billing_date))
        /\ document' = <<runs, s>>
    /\ pc' = "cons_charge"
    /\ asked' = asked \cup {billing_date}
    /\ UNCHANGED <<per_run, end_calls, fixed, state, runs, entry, custTodo,
                   customer, cached_documents, issueTodo>>

\* loop head: should_be_billed(billing_date) is false => continue
cons_skip ==
    /\ pc = "cons_loop"
    /\ \E s \in subTodo :
        /\ ~should_be_billed(s, billing_date)
        /\ subTodo' = subTodo \ {s}
    /\ asked' = asked \cup {billing_date}
    /\ UNCHANGED <<per_run, end_calls, fixed, state, docs, runs, pc, entry,
                   custTodo, customer, subscription, document,
                   cached_documents, issueTodo>>

\* mutant of cons_reuse: the cache is not consulted, a document is created
cons_reuse_creates ==
    /\ pc = "cons_loop"
    /\ \E s \in subTodo :
        /\ should_be_billed(s, billing_date)
        /\ cached_documents[sub_provider[s]] # NoDoc
        /\ subTodo' = subTodo \ {s}
        /\ subscription' = s
        /\ docs' = docs @@ (<<runs, s>> :>
                       create_document(sub_provider[s], customer, s,
                                       billing_date))
        /\ document' = <<runs, s>>
        /\ cached_documents' =
               [cached_documents EXCEPT ![sub_provider[s]] = <<runs, s>>]
    /\ pc' = "cons_charge"
    /\ asked' = asked \cup {billing_date}
    /\ UNCHANGED <<per_run, end_calls, fixed, state, runs, entry, custTodo,
                   customer, issueTodo>>

\* loop head for a subscription to bill whose provider is in cached_documents
cons_reuse ==
    /\ pc = "cons_loop"
    /\ \E s \in subTodo :
        /\ should_be_billed(s, billing_date)
        /\ cached_documents[sub_provider[s]] # NoDoc
        /\ subTodo' = subTodo \ {s}
        /\ subscription' = s
        /\ document' = cached_documents[sub_provider[s]]
    /\ pc' = "cons_charge"
    /\ asked' = asked \cup {billing_date}
    /\ UNCHANGED <<per_run, end_calls, fixed, state, docs, runs, entry,
                   custTodo, customer, cached_documents, issueTodo>>

\* mutant of cons_create: the cache remembers the last provider only
cons_create_one_slot ==
    /\ pc = "cons_loop"
    /\ \E s \in subTodo :
        /\ should_be_billed(s, billing_date)
        /\ cached_documents[sub_provider[s]] = NoDoc
        /\ subTodo' = subTodo \ {s}
        /\ subscription' = s
        /\ docs' = docs @@ (<<runs, s>> :>
                       create_document(sub_provider[s], customer, s,
                                       billing_date))
        /\ document' = <<runs, s>>
        /\ cached_documents' =
               [NoCache EXCEPT ![sub_provider[s]] = <<runs, s>>]
    /\ pc' = "cons_charge"
    /\ asked' = asked \cup {billing_date}
    /\ UNCHANGED <<per_run, end_calls, fixed, state, runs, entry, custTodo,
                   customer, issueTodo>>

\* loop head for a subscription to bill whose provider has no document yet
cons_create ==
    /\ pc = "cons_loop"
    /\ \E s \in subTodo :
        /\ should_be_billed(s, billing_date)
        /\ cached_documents[sub_provider[s]] = NoDoc
        /\ subTodo' = subTodo \ {s}
        /\ subscription' = s
        /\ docs' = docs @@ (<<runs, s>> :>
                       create_document(sub_provider[s], customer, s,
                                       billing_date))
        /\ document' = <<runs, s>>
        /\ cached_documents' =
               [cached_documents EXCEPT ![sub_provider[s]] = <<runs, s>>]
    /\ pc' = "cons_charge"
    /\ asked' = asked \cup {billing_date}
    /\ UNCHANGED <<per_run, end_calls, fixed, state, runs, entry, custTodo,
                   customer, issueTodo>>

\* subscription.add_total_value_to_document(**args)
cons_charge ==
    /\ pc = "cons_charge"
    /\ docs' = add_total_value_to_document(docs, document, subscription,
                                         billing_date)
    /\ pc' = "cons_end"
    /\ UNCHANGED <<per_run, asked, end_calls, fixed, state, runs, entry,
                   custTodo, customer, subTodo, subscription, document,
                   cached_documents, issueTodo>>

\* mutant of cons_end: a canceled subscription is ended only if its document
\* is going to be issued
cons_end_if_issued ==
    /\ pc = "cons_end"
    /\ LET ends == /\ state[subscription] = "canceled"
                   /\ default_document_state[sub_provider[subscription]]
                          = "issued"
       IN  /\ state' = IF ends THEN end(state, subscription) ELSE state
           /\ end_calls' = IF ends
                           THEN [end_calls EXCEPT ![subscription] = @ + 1]
                           ELSE end_calls
    /\ pc' = "cons_loop"
    /\ UNCHANGED <<per_run, asked, fixed, docs, runs, entry, custTodo,
                   customer, subTodo, subscription, document,
                   cached_documents, issueTodo>>

\* mutant of cons_end: the document is issued inside the subscription loop
cons_end_issues ==
    /\ pc = "cons_end"
    /\ state' = IF state[subscription] = "canceled"
                THEN end(state, subscription) ELSE state
    /\ end_calls' = IF state[subscription] = "canceled"
                    THEN [end_calls EXCEPT ![subscription] = @ + 1]
                    ELSE end_calls
    /\ docs' = IF default_document_state[sub_provider[subscription]] = "issued"
               THEN issue(docs, document) ELSE docs
    /\ pc' = "cons_loop"
    /\ UNCHANGED <<per_run, asked, fixed, runs, entry, custTodo, customer,
                   subTodo, subscription, document, cached_documents,
                   issueTodo>>

\* if subscription.state == 'canceled': end(); save()
cons_end ==
    /\ pc = "cons_end"
    /\ state' = IF state[subscription] = "canceled"
                THEN end(state, subscription) ELSE state
    /\ end_calls' = IF state[subscription] = "canceled"
                    THEN [end_calls EXCEPT ![subscription] = @ + 1]
                    ELSE end_calls
    /\ pc' = "cons_loop"
    /\ UNCHANGED <<per_run, asked, fixed, docs, runs, entry, custTodo,
                   customer, subTodo, subscription, document,
                   cached_documents, issueTodo>>

\* the subscription loop is exhausted: start cached_documents.iteritems()
cons_loop_done ==
    /\ pc = "cons_loop"
    /\ subTodo = {}
    /\ issueTodo' = {p \in Providers : cached_documents[p] # NoDoc}
    /\ subscription' = NoOne
    /\ document' = NoDoc
    /\ pc' = "cons_issue"
    /\ UNCHANGED <<per_run, asked, end_calls, fixed, state, docs, runs, entry,
                   custTodo, customer, subTodo, cached_documents>>

\* mutant of cons_issue: the loop is left after the first document
cons_issue_first_only ==
    /\ pc = "cons_issue"
    /\ \E p \in issueTodo :
        /\ issueTodo' = {}
        /\ docs' = IF default_document_state[p] = "issued"
                   THEN issue(docs, cached_documents[p]) ELSE docs
    /\ UNCHANGED <<per_run, asked, end_calls, fixed, state, runs, pc, entry,
                   custTodo, customer, subTodo, subscription, document,
                   cached_documents>>

\* one (provider, document) of the cache: issue it if the provider says so
cons_issue ==
    /\ pc = "cons_issue"
    /\ \E p \in issueTodo :
        /\ issueTodo' = issueTodo \ {p}
        /\ docs' = IF default_document_state[p] = "issued"
                   THEN issue(docs, cached_documents[p]) ELSE docs
    /\ UNCHANGED <<per_run, asked, end_calls, fixed, state, runs, pc, entry,
                   custTodo, customer, subTodo, subscription, document,
                   cached_documents>>

\* the cache is exhausted: back to the customer loop
cons_done ==
    /\ pc = "cons_issue"
    /\ issueTodo = {}
    /\ pc' = "all_loop"
    /\ UNCHANGED <<per_run, asked, end_calls, fixed, state, docs, runs, entry,
                   custTodo, customer, subTodo, subscription, document,
                   cached_documents, issueTodo>>

\* ---------------------- _generate_for_user_without_consolidated_billing

\* mutant of sep_skip: the document is created before should_be_billed is
\* asked
sep_skip_creates ==
    /\ pc = "sep_loop"
    /\ \E s \in subTodo :
        /\ ~should_be_billed(s, billing_date)
        /\ subTodo' = subTodo \ {s}
        /\ docs' = docs @@ (<<runs, s>> :>
                       create_document(sub_provider[s], customer, s,
                                       billing_date))
    /\ asked' = asked \cup {billing_date}
    /\ UNCHANGED <<per_run, end_calls, fixed, state, runs, pc, entry,
                   custTodo, customer, subscription, document,
                   cached_documents, issueTodo>>

\* mutant of sep_skip: the continue is missing, the subscription is billed
sep_skip_bills ==
    /\ pc = "sep_loop"
    /\ \E s \in subTodo :
        /\ ~should_be_billed(s, billing_date)
        /\ subTodo' = subTodo \ {s}
        /\ subscription' = s
        /\ docs' = docs @@ (<<runs, s>> :>
                       create_document(sub_provider[s], customer, s,
                                       billing_date))
        /\ document' = <<runs, s>>
    /\ pc' = "sep_charge"
    /\ asked' = asked \cup {billing_date}
    /\ UNCHANGED <<per_run, end_calls, fixed, state, runs, entry, custTodo,
                   customer, cached_documents, issueTodo>>

\* loop head: should_be_billed(billing_date) is false => continue
sep_skip ==
    /\ pc = "sep_loop"
    /\ \E s \in subTodo :
        /\ ~should_be_billed(s, billing_date)
        /\ subTodo' = subTodo \ {s}
    /\ asked' = asked \cup {billing_date}
    /\ UNCHANGED <<per_run, end_calls, fixed, state, docs, runs, pc, entry,
                   custTodo, customer, subscription, document,
                   cached_documents, issueTodo>>

\* mutant of sep_create: the documents are cached by provider as on the
\* consolidated path
sep_create_cached ==
    /\ pc = "sep_loop"
    /\ \E s \in subTodo :
        /\ should_be_billed(s, billing_date)
        /\ subTodo' = subTodo \ {s}
        /\ subscription' = s
        /\ IF cached_documents[sub_provider[s]] # NoDoc
           THEN /\ document' = cached_documents[sub_provider[s]]
                /\ UNCHANGED <<docs, cached_documents>>
           ELSE /\ docs' = docs @@ (<<runs, s>> :>
                               create_document(sub_provider[s], customer, s,
                                               billing_date))
                /\ document' = <<runs, s>>
                /\ cached_documents' =
                       [cached_documents EXCEPT ![sub_provider[s]] = <<runs, s>>]
    /\ pc' = "sep_charge"
    /\ asked' = asked \cup {billing_date}
    /\ UNCHANGED <<per_run, end_calls, fixed, state, runs, entry, custTodo,
                   customer, issueTodo>>

\* loop head for a subscription to bill: a document of its own
sep_create ==
    /\ pc = "sep_loop"
    /\ \E s \in subTodo :
        /\ should_be_billed(s, billing_date)
        /\ subTodo' = subTodo \ {s}
        /\ subscription' = s
        /\ docs' = docs @@ (<<runs, s>> :>
                       create_document(sub_provider[s], customer, s,
                                       billing_date))
        /\ document' = <<runs, s>>
    /\ pc' = "sep_charge"
    /\ asked' = asked \cup {billing_date}
    /\ UNCHANGED <<per_run, end_calls, fixed, state, runs, entry, custTodo,
                   customer, cached_documents, issueTodo>>

sep_charge ==
    /\ pc = "sep_charge"
    /\ docs' = add_total_value_to_document(docs, document, subscription,
                                         billing_date)
    /\ pc' = "sep_end"
    /\ UNCHANGED <<per_run, asked, end_calls, fixed, state, runs, entry,
                   custTodo, customer, subTodo, subscription, document,
                   cached_documents, issueTodo>>

\* mutant of sep_end: every billed subscription is ended
sep_end_any_state ==
    /\ pc = "sep_end"
    /\ state' = end(state, subscription)
    /\ end_calls' = [end_calls EXCEPT ![subscription] = @ + 1]
    /\ pc' = "sep_issue"
    /\ UNCHANGED <<per_run, asked, fixed, docs, runs, entry, custTodo,
                   customer, subTodo, subscription, document,
                   cached_documents, issueTodo>>

sep_end ==
    /\ pc = "sep_end"
    /\ state' = IF state[subscription] = "canceled"
                THEN end(state, subscription) ELSE state
    /\ end_calls' = IF state[subscription] = "canceled"
                    THEN [end_calls EXCEPT ![subscription] = @ + 1]
                    ELSE end_calls
    /\ pc' = "sep_issue"
    /\ UNCHANGED <<per_run, asked, fixed, docs, runs, entry, custTodo,
                   customer, subTodo, subscription, document,
                   cached_documents, issueTodo>>

\* mutant of sep_issue: default_document_state is not looked at
sep_issue_always ==
    /\ pc = "sep_issue"
    /\ docs' = issue(docs, document)
    /\ pc' = "sep_loop"
    /\ UNCHANGED <<per_run, asked, end_calls, fixed, state, runs, entry,
                   custTodo, customer, subTodo, subscription, document,
                   cached_documents, issueTodo>>

sep_issue ==
    /\ pc = "sep_issue"
    /\ docs' = IF default_document_state[sub_provider[subscription]] = "issued"
               THEN issue(docs, document) ELSE docs
    /\ pc' = "sep_loop"
    /\ UNCHANGED <<per_run, asked, end_calls, fixed, state, runs, entry,
                   custTodo, customer, subTodo, subscription, document,
                   cached_documents, issueTodo>>

sep_done ==
    /\ pc = "sep_loop"
    /\ subTodo = {}
    /\ subscription' = NoOne
    /\ document' = NoDoc
    /\ pc' = "all_loop"
    /\ UNCHANGED <<per_run, asked, end_calls, fixed, state, docs, runs, entry,
                   custTodo, customer, subTodo, cached_documents, issueTodo>>

\* ------------------------------- _generate_for_single_subscription_now

\* generate(subscription): no state filter, no should_be_billed
generate_single ==
    /\ Resting
    /\ runs < MaxRuns
    /\ runs' = runs + 1
    /\ entry' = "single"
    /\ now' = today
    /\ billing_date' = now'
    /\ \E s \in Subscriptions :
        /\ subscription' = s
        /\ customer' = sub_customer[s]
    /\ custTodo' = {}
    /\ subTodo' = {}
    /\ document' = NoDoc
    /\ cached_documents' = NoCache
    /\ issueTodo' = {}
    /\ pc' = "one_create"
    /\ state0' = state
    /\ docs0' = docs
    /\ end_calls' = NoCalls
    /\ asked' = {}
    /\ UNCHANGED <<fixed, state, docs>>

\* mutant of one_create: a draft of the same customer and provider is reused
one_create_reuses ==
    /\ pc = "one_create"
    /\ LET old == {d \in DOMAIN docs :
                       /\ docs[d].customer = customer
                       /\ docs[d].provider = sub_provider[subscription]
                       /\ docs[d].state = "draft"}
       IN  IF old # {}
           THEN /\ document' \in old
                /\ docs' = docs
           ELSE /\ docs' = docs @@ (<<runs, subscription>> :>
                          create_document(sub_provider[subscription], customer,
                                          subscription, billing_date))
                /\ document' = <<runs, subscription>>
    /\ pc' = "one_charge"
    /\ UNCHANGED <<per_run, asked, end_calls, fixed, state, runs, entry,
                   custTodo, customer, subTodo, subscription,
                   cached_documents, issueTodo>>

one_create ==
    /\ pc = "one_create"
    /\ docs' = docs @@ (<<runs, subscription>> :>
                   create_document(sub_provider[subscription], customer,
                                   subscription, billing_date))
    /\ document' = <<runs, subscription>>
    /\ pc' = "one_charge"
    /\ UNCHANGED <<per_run, asked, end_calls, fixed, state, runs, entry,
                   custTodo, customer, subTodo, subscription,
                   cached_documents, issueTodo>>

\* mutant of one_charge: the subscription is ended before it is charged
one_charge_after_end ==
    /\ pc = "one_charge"
    /\ state' = IF state[subscription] = "canceled"
                THEN end(state, subscription) ELSE state
    /\ end_calls' = IF state[subscription] = "canceled"
                    THEN [end_calls EXCEPT ![subscription] = @ + 1]
                    ELSE end_calls
    /\ pc' = "one_end"
    /\ UNCHANGED <<per_run, asked, fixed, docs, runs, entry, custTodo,
                   customer, subTodo, subscription, document,
                   cached_documents, issueTodo>>

one_charge ==
    /\ pc = "one_charge"
    /\ docs' = add_total_value_to_document(docs, document, subscription,
                                         billing_date)
    /\ pc' = "one_end"
    /\ UNCHANGED <<per_run, asked, end_calls, fixed, state, runs, entry,
                   custTodo, customer, subTodo, subscription, document,
                   cached_documents, issueTodo>>

one_end ==
    /\ pc = "one_end"
    /\ state' = IF state[subscription] = "canceled"
                THEN end(state, subscription) ELSE state
    /\ end_calls' = IF state[subscription] = "canceled"
                    THEN [end_calls EXCEPT ![subscription] = @ + 1]
                    ELSE end_calls
    /\ pc' = "one_issue"
    /\ UNCHANGED <<per_run, asked, fixed, docs, runs, entry, custTodo,
                   customer, subTodo, subscription, document,
                   cached_documents, issueTodo>>

one_issue ==
    /\ pc = "one_issue"
    /\ docs' = IF default_document_state[sub_provider[subscription]] = "issued"
               THEN issue(docs, document) ELSE docs
    /\ pc' = "done"
    /\ UNCHANGED <<per_run, asked, end_calls, fixed, state, runs, entry,
                   custTodo, customer, subTodo, subscription, document,
                   cached_documents, issueTodo>>

\* ------------------------------------------------------------ failures

\* the providers whose document the next step of the issuing code would issue
IssuePending ==
    CASE pc = "cons_issue" ->
             {p \in issueTodo : default_document_state[p] = "issued"}
      [] pc \in {"sep_issue", "one_issue"} ->
             {p \in {sub_provider[subscription]} :
                  default_document_state[p] = "issued"}
      [] OTHER -> {}

\* the next step calls a collaborator (query, create, add_total_value..., end)
CallPending ==
    \/ pc = "all_loop" /\ custTodo # {}
    \/ pc \in {"cons_loop", "sep_loop"} /\ subTodo # {}
    \/ pc \in {"cons_charge", "sep_charge", "one_charge", "one_create"}
    \/ pc \in {"cons_end", "sep_end", "one_end"}
           /\ state[subscription] = "canceled"
    \/ IssuePending # {}

\* mutant of raise: the documents of the cache are issued on the way out
raise_issues_cache ==
    /\ CallPending
    /\ pc' = "aborted"
    /\ docs' = [d \in DOMAIN docs |->
                  IF /\ \E p \in Providers : cached_documents[p] = d
                     /\ default_document_state[docs[d].provider] = "issued"
                     /\ docs[d].state = "draft"
                  THEN [docs[d] EXCEPT !.state = "issued",
                                       !.issue_calls = @ + 1]
                  ELSE docs[d]]
    /\ UNCHANGED <<per_run, asked, end_calls, fixed, state, runs, entry,
                   custTodo, customer, subTodo, subscription, document,
                   cached_documents, issueTodo>>

\* mutant of raise: the run is one transaction, an exception rolls it back
raise_rolls_back ==
    /\ CallPending
    /\ pc' = "aborted"
    /\ state' = state0
    /\ docs' = docs0
    /\ UNCHANGED <<per_run, asked, end_calls, fixed, runs, entry, custTodo,
                   customer, subTodo, subscription, document,
                   cached_documents, issueTodo>>

\* a collaborator call raises before it changed anything that is persisted;
\* nothing catches the exception, so generate() is left
raise ==
    /\ CallPending
    /\ pc' = "aborted"
    /\ UNCHANGED <<per_run, asked, end_calls, fixed, state, docs, runs, entry,
                   custTodo, customer, subTodo, subscription, document,
                   cached_documents, issueTodo>>

\* document.issue() went through in memory, the document.save() after it
\* raised: the persisted document is still a draft
raise_in_document_save ==
    /\ \E p \in IssuePending :
        docs' = issue_unsaved(docs, IF pc = "cons_issue"
                                    THEN cached_documents[p] ELSE document)
    /\ pc' = "aborted"
    /\ UNCHANGED <<per_run, asked, end_calls, fixed, state, runs, entry,
                   custTodo, customer, subTodo, subscription, document,
                   cached_documents, issueTodo>>

\* subscription.end() went through in memory, the subscription.save() after
\* it raised: the persisted subscription is still canceled
raise_in_subscription_save ==
    /\ pc \in {"cons_end", "sep_end", "one_end"}
    /\ state[subscription] = "canceled"
    /\ end_calls' = [end_calls EXCEPT ![subscription] = @ + 1]
    /\ pc' = "aborted"
    /\ UNCHANGED <<per_run, asked, fixed, state, docs, runs, entry, custTodo,
                   customer, subTodo, subscription, document,
                   cached_documents, issueTodo>>

Next ==
    \/ generate_all
    \/ next_customer
    \/ all_done
    \/ cons_skip
    \/ cons_reuse
    \/ cons_create
    \/ cons_charge
    \/ cons_end
    \/ cons_loop_done
    \/ cons_issue
    \/ cons_done
    \/ sep_skip
    \/ sep_create
    \/ sep_charge
    \/ sep_end
    \/ sep_issue
    \/ sep_done
    \/ generate_single
    \/ one_create
    \/ one_charge
    \/ one_end
    \/ one_issue
    \/ raise
    \/ raise_in_document_save
    \/ raise_in_subscription_save

Spec == Init /\ [][Next]_vars

\* the steps of a full run up to the end of the customer loop
FullRunStep ==
    \/ generate_all
    \/ next_customer
    \/ cons_skip
    \/ cons_reuse
    \/ cons_create
    \/ cons_charge
    \/ cons_end
    \/ cons_loop_done
    \/ cons_issue
    \/ cons_done
    \/ sep_skip
    \/ sep_create
    \/ sep_charge
    \/ sep_end
    \/ sep_issue
    \/ sep_done
    \/ raise
    \/ raise_in_document_save
    \/ raise_in_subscription_save

\* ------------------------------------------------ the clock moves on

\* bound: the midnights that pass
MaxTicks == 1

\* the last day of June 2023
MonthEnd == Date(6, 30)

\* midnight: timezone.now().date() answers the next day from now on
tick ==
    /\ today < MonthEnd + MaxTicks
    /\ today' = today + 1
    /\ UNCHANGED <<config, parked, interleaved, per_run, asked, end_calls,
                   state, docs, runs, pc, entry, custTodo, customer, subTodo,
                   subscription, document, cached_documents, issueTodo>>

\* generate() is called on the last day of a month, for all customers
InitClock == Started({MonthEnd})

NextClock ==
    \/ FullRunStep
    \/ all_done
    \/ tick

SpecClock == InitClock /\ [][NextClock]_vars

\* ------------------------------------- the customers side by side

\* An outer scheduler runs the calls of lines 33-37, one per customer, side
\* by side: between two steps of a call it may suspend the call and start or
\* resume the call of another customer.  billing_date is shared; the locals
\* of a suspended call, cached_documents among them, wait in parked.

\* the positions inside _generate_for_user_with(out)_consolidated_billing
WorkerSteps == {"cons_loop", "cons_charge", "cons_end", "cons_issue",
                "sep_loop", "sep_charge", "sep_end", "sep_issue"}

\* the locals of the running call; seen counts the documents that exist
Locals ==
    [pc |-> pc, subTodo |-> subTodo, subscription |-> subscription,
     document |-> document, cached_documents |-> cached_documents,
     issueTodo |-> issueTodo, seen |-> Cardinality(DOMAIN docs)]

\* the running call is suspended
worker_yield ==
    /\ pc \in WorkerSteps
    /\ parked' = parked @@ (customer :> Locals)
    /\ pc' = "all_loop"
    /\ customer' = NoOne
    /\ subTodo' = {}
    /\ subscription' = NoOne
    /\ document' = NoDoc
    /\ cached_documents' = NoCache
    /\ issueTodo' = {}
    /\ UNCHANGED <<config, today, interleaved, per_run, asked, end_calls,
                   state, docs, runs, entry, custTodo>>

\* mutant of worker_resume: cached_documents is one dict of the generator,
\* not a local of the call
worker_resume_shared_cache ==
    /\ pc = "all_loop"
    /\ \E c \in DOMAIN parked :
        /\ customer' = c
        /\ pc' = parked[c].pc
        /\ subTodo' = parked[c].subTodo
        /\ subscription' = parked[c].subscription
        /\ document' = parked[c].document
        /\ issueTodo' = parked[c].issueTodo
        /\ interleaved' =
               (interleaved \/ Cardinality(DOMAIN docs) > parked[c].seen)
        /\ parked' = [x \in DOMAIN parked \ {c} |-> parked[x]]
    /\ UNCHANGED <<config, today, per_run, asked, end_calls, state, docs,
                   runs, entry, custTodo, cached_documents>>

\* a suspended call goes on; interleaved: documents were created meanwhile
worker_resume ==
    /\ pc = "all_loop"
    /\ \E c \in DOMAIN parked :
        /\ customer' = c
        /\ pc' = parked[c].pc
        /\ subTodo' = parked[c].subTodo
        /\ subscription' = parked[c].subscription
        /\ document' = parked[c].document
        /\ cached_documents' = parked[c].cached_documents
        /\ issueTodo' = parked[c].issueTodo
        /\ interleaved' =
               (interleaved \/ Cardinality(DOMAIN docs) > parked[c].seen)
        /\ parked' = [x \in DOMAIN parked \ {c} |-> parked[x]]
    /\ UNCHANGED <<config, today, per_run, asked, end_calls, state, docs,
                   runs, entry, custTodo>>

\* every customer was started and no call is suspended: generate() returns
workers_done ==
    /\ pc = "all_loop"
    /\ custTodo = {}
    /\ DOMAIN parked = {}
    /\ pc' = "done"
    /\ customer' = NoOne
    /\ UNCHANGED <<per_run, asked, end_calls, fixed, state, docs, runs, entry,
                   custTodo, subTodo, subscription, document,
                   cached_documents, issueTodo>>

\* full runs, started on June 1
InitWorkers == Started({Date(6, 1)})

NextWorkers ==
    \/ FullRunStep
    \/ worker_yield
    \/ worker_resume
    \/ workers_done

SpecWorkers == InitWorkers /\ [][NextWorkers]_vars

\* ------------------------------------------------- vocabulary of the claims

\* the documents the current run has created
NewDocs == DOMAIN docs \ DOMAIN docs0

\* the documents the current run has created for customer c
DocsFor(c) == {d \in NewDocs : docs[d].customer = c}

\* passed the state filter and should_be_billed when the run was entered
EligibleAtStart(s) ==
    state0[s] \in BillableStates /\ should_be_billed(s, billing_date)

EligibleSubs(c) ==
    {s \in Subscriptions : sub_customer[s] = c /\ EligibleAtStart(s)}

EligibleProviders(c) == {sub_provider[s] : s \in EligibleSubs(c)}

RECURSIVE Charges(_, _)
\* number of charges of subscription s on the documents of the set D
Charges(s, D) ==
    IF D = {} THEN 0
    ELSE LET d == CHOOSE x \in D : TRUE
         IN  docs[d].charges[s] + Charges(s, D \ {d})

\* the charges of a document that carries one charge, of subscription s
OnlyCharge(s) == [x \in Subscriptions |-> IF x = s THEN 1 ELSE 0]

FullRunDone == pc = "done" /\ entry = "all"

\* --------------------------------------------------------------- claims

\* C1: after a full run, a customer with consolidated billing has one
\* document per provider of its eligible subscriptions and no other document.
C1_OneDocumentPerProvider ==
    FullRunDone =>
        \A c \in Customers :
            consolidated_billing[c] =>
                /\ Cardinality(DocsFor(c)) = Cardinality(EligibleProviders(c))
                /\ \A p \in Providers :
                       Cardinality({d \in DocsFor(c) : docs[d].provider = p})
                           = IF p \in EligibleProviders(c) THEN 1 ELSE 0

C1_Witness ==
    /\ FullRunDone
    /\ \E c \in Customers :
        /\ consolidated_billing[c]
        /\ Cardinality(EligibleSubs(c)) = 3
        /\ Cardinality(EligibleProviders(c)) = 2
        /\ Cardinality(DocsFor(c)) = 2

\* C2: a document of the consolidated path carries charges only of eligible
\* subscriptions of its own customer and provider, one each, and after the
\* run it carries one charge of every such subscription.
C2_ConsolidatedCharges ==
    \A d \in NewDocs :
        (docs[d].entry = "all" /\ consolidated_billing[docs[d].customer]) =>
            \A s \in Subscriptions :
                LET mine == /\ sub_customer[s] = docs[d].customer
                            /\ sub_provider[s] = docs[d].provider
                            /\ EligibleAtStart(s)
                IN  /\ docs[d].charges[s] <= 1
                    /\ docs[d].charges[s] = 1 => mine
                    /\ (pc = "done" /\ mine) => docs[d].charges[s] = 1

C2_Witness ==
    /\ FullRunDone
    /\ \E d1, d2 \in NewDocs :
        /\ docs[d1].provider = docs[d2].provider
        /\ docs[d1].customer # docs[d2].customer
        /\ consolidated_billing[docs[d1].customer]
        /\ consolidated_billing[docs[d2].customer]
        /\ \E s \in Subscriptions : docs[d1].charges[s] = 1
        /\ \E s \in Subscriptions : docs[d2].charges[s] = 1

\* C3: after a full run, a customer without consolidated billing has one
\* document per eligible subscription, each with the single charge of a
\* different subscription.
C3_OneDocumentPerSubscription ==
    FullRunDone =>
        \A c \in Customers :
            ~consolidated_billing[c] =>
                /\ Cardinality(DocsFor(c)) = Cardinality(EligibleSubs(c))
                /\ \A d \in DocsFor(c) :
                       \E s \in EligibleSubs(c) :
                           docs[d].charges = OnlyCharge(s)
                /\ \A d1, d2 \in DocsFor(c) :
                       d1 # d2 => docs[d1].charges # docs[d2].charges

C3_Witness ==
    /\ FullRunDone
    /\ \E c \in Customers :
        /\ ~consolidated_billing[c]
        /\ Cardinality(EligibleSubs(c)) = 3
        /\ Cardinality(EligibleProviders(c)) = 2
        /\ Cardinality(DocsFor(c)) = 3

\* C4: in a full run a subscription that fails the state filter or
\* should_be_billed gets no document and no charge, end() is not called on
\* it and its state stays as it was.
C4_SkippedUntouched ==
    entry = "all" =>
        \A s \in Subscriptions :
            ~EligibleAtStart(s) =>
                /\ state[s] = state0[s]
                /\ end_calls[s] = 0
                /\ \A d \in NewDocs :
                       docs[d].created_for # s /\ docs[d].charges[s] = 0

C4_Witness ==
    /\ FullRunDone
    /\ NewDocs # {}
    /\ \E s \in Subscriptions :
           state0[s] = "canceled" /\ ~should_be_billed(s, billing_date)
    /\ \E s \in Subscriptions : state0[s] = "inactive"

\* C5: on every entry point a subscription is ended, and end() is called on
\* it, only when it was canceled and its charge is on a document of this run.
C5_EndedOnlyAfterCharge ==
    \A s \in Subscriptions :
        (state[s] # state0[s] \/ end_calls[s] > 0) =>
            /\ state0[s] = "canceled"
            /\ state[s] \in {"canceled", "ended"}
            /\ Charges(s, NewDocs) >= 1

C5_Witness ==
    /\ entry = "all"
    /\ \E s \in Subscriptions :
        /\ consolidated_billing[sub_customer[s]]
        /\ state0[s] = "canceled"
        /\ state[s] = "ended"
        /\ Charges(s, NewDocs) = 1

\* C6: no charge is appended to a document on which issue() was called, and
\* while the subscription loop of the consolidated path runs no document of
\* the cache is issued.
C6_NoChargeAfterIssue ==
    /\ [](pc \in {"cons_loop", "cons_charge", "cons_end"} =>
             \A p \in Providers :
                 cached_documents[p] # NoDoc =>
                     /\ docs[cached_documents[p]].state = "draft"
                     /\ docs[cached_documents[p]].issue_calls = 0)
    /\ [][\A d \in DOMAIN docs :
              docs'[d].charges # docs[d].charges =>
                  docs[d].state = "draft" /\ docs[d].issue_calls = 0]_vars

C6_Witness ==
    \E d \in NewDocs :
        /\ consolidated_billing[docs[d].customer]
        /\ docs[d].entry = "all"
        /\ docs[d].state = "issued"
        /\ \E s1, s2 \in Subscriptions :
               s1 # s2 /\ docs[d].charges[s1] = 1 /\ docs[d].charges[s2] = 1

\* C7 as stated: over all the calls of one billing cycle a subscription is
\* charged at most once, and only if should_be_billed answered true.
C7_BilledOncePerCycle ==
    \A s \in Subscriptions :
        /\ Charges(s, DOMAIN docs) <= 1
        /\ Charges(s, DOMAIN docs) >= 1 => billable[s]

\* C7 amended: one call charges a subscription at most once, and a full run
\* charges it only if it passed the state filter and should_be_billed.
C7_BilledOncePerRun ==
    \A s \in Subscriptions :
        /\ \A r \in 1..runs :
               Charges(s, {d \in DOMAIN docs : docs[d].run = r}) <= 1
        /\ \A d \in DOMAIN docs :
               (docs[d].entry = "all" /\ docs[d].charges[s] >= 1) =>
                   billable[s]

C7_Witness ==
    \E s \in Subscriptions :
        /\ Charges(s, NewDocs) = 1
        /\ Charges(s, DOMAIN docs0) = 1
        /\ entry = "all"

\* C8: issue() is called at most once on a document and only if its
\* provider's default_document_state is issued; a document of a provider
\* whose default_document_state is draft is a draft.
C8_IssuedOnceIfConfigured ==
    \A d \in DOMAIN docs :
        /\ docs[d].issue_calls <= 1
        /\ docs[d].issue_calls = 1 =>
               default_document_state[docs[d].provider] = "issued"
        /\ docs[d].state = "issued" => docs[d].issue_calls = 1
        /\ default_document_state[docs[d].provider] = "draft" =>
               docs[d].state = "draft"

C8_Witness ==
    /\ pc = "done"
    /\ \E d1, d2 \in NewDocs :
        /\ docs[d1].state = "issued" /\ docs[d1].issue_calls = 1
        /\ default_document_state[docs[d2].provider] = "draft"
        /\ docs[d2].state = "draft"

\* C9: a finished generate(subscription) has created one document, with the
\* single charge of that subscription, has left every older document as it
\* was, has ended the subscription if it was canceled and has issued the
\* document if the provider's default_document_state is issued.
C9_SingleRunOneFreshDocument ==
    (pc = "done" /\ entry = "single") =>
        /\ Cardinality(NewDocs) = 1
        /\ \A d \in DOMAIN docs0 : docs[d] = docs0[d]
        /\ \A d \in NewDocs :
            /\ docs[d].charges = OnlyCharge(subscription)
            /\ docs[d].provider = sub_provider[subscription]
            /\ docs[d].customer = sub_customer[subscription]
            /\ docs[d].state =
                   default_document_state[sub_provider[subscription]]
        /\ \A s \in Subscriptions :
               state[s] = IF s = subscription /\ state0[s] = "canceled"
                          THEN "ended" ELSE state0[s]

C9_Witness ==
    /\ pc = "done"
    /\ entry = "single"
    /\ consolidated_billing[sub_customer[subscription]]
    /\ state0[subscription] = "canceled"
    /\ state[subscription] = "ended"
    /\ \E d \in DOMAIN docs0 :
        /\ docs0[d].customer = sub_customer[subscription]
        /\ docs0[d].provider = sub_provider[subscription]
        /\ docs0[d].state = "draft"

\* C10: when a full run is aborted, the customers the loop had not reached
\* have no document, charge, end or issue of this run, the step that aborts
\* undoes nothing, and nothing happens after it.
C10_AbortStopsWithoutRollback ==
    /\ []((pc = "aborted" /\ entry = "all") =>
             \A c \in custTodo :
                 /\ DocsFor(c) = {}
                 /\ \A s \in Subscriptions :
                        sub_customer[s] = c =>
                            /\ state[s] = state0[s]
                            /\ end_calls[s] = 0
                            /\ Charges(s, NewDocs) = 0)
    /\ [][(pc' = "aborted" /\ entry = "all") =>
              /\ state' = state
              /\ DOMAIN docs' = DOMAIN docs
              /\ \A d \in DOMAIN docs :
                     /\ docs'[d].state = docs[d].state
                     /\ docs'[d].charges = docs[d].charges]_vars

C10_Witness ==
    /\ pc = "aborted"
    /\ entry = "all"
    /\ \E c \in custTodo : EligibleSubs(c) # {}
    /\ \E d \in NewDocs :
        /\ docs[d].state = "issued"
        /\ \E s \in Subscriptions :
               docs[d].charges[s] = 1 /\ state[s] = "ended"
\* C11: the due date of a document is the billing date of its run, the
\* first of the month for a full run and the day itself for a single
\* subscription, plus the customer's payment_due_days; 15 days after
\* June 1 is June 16.
C11_DueDate ==
    \A d \in DOMAIN docs :
        LET billed == IF docs[d].entry = "all"
                      THEN Date(MonthOf(today), 1) ELSE today
        IN  /\ docs[d].due_date =
                   billed + payment_due_days(docs[d].customer)
            /\ (billed = Date(6, 1)
                    /\ payment_due_days(docs[d].customer) = 15) =>
                   MonthDay(docs[d].due_date) = <<6, 16>>

C11_Witness ==
    /\ today = Date(6, 16)
    /\ \E d1, d2 \in DOMAIN docs :
        /\ docs[d1].entry = "all"
        /\ MonthDay(docs[d1].due_date) = <<6, 16>>
        /\ docs[d2].entry = "single"
        /\ MonthDay(docs[d2].due_date) = <<7, 1>>

\* C12: when a call has returned, a document it created is issued exactly
\* if its provider's default_document_state is issued.
C12_IssuedIffConfigured ==
    pc = "done" =>
        \A d \in NewDocs :
            docs[d].state = "issued" <=>
                default_document_state[docs[d].provider] = "issued"

C12_Witness ==
    /\ FullRunDone
    /\ \E d1, d2 \in NewDocs :
        /\ d1 # d2
        /\ docs[d1].customer = docs[d2].customer
        /\ consolidated_billing[docs[d1].customer]
        /\ docs[d1].state = "issued"
        /\ docs[d2].state = "issued"

\* C13: when a call has returned, every subscription it charged that was
\* canceled is ended, whatever the state of its document.
C13_BilledCanceledIsEnded ==
    pc = "done" =>
        \A s \in Subscriptions :
            (state0[s] = "canceled" /\ Charges(s, NewDocs) >= 1) =>
                state[s] = "ended"

C13_Witness ==
    /\ FullRunDone
    /\ \E d \in NewDocs : \E s1, s2 \in Subscriptions :
        /\ consolidated_billing[docs[d].customer]
        /\ docs[d].state = "draft"
        /\ docs[d].created_for = s1
        /\ state0[s1] = "canceled" /\ state[s1] = "ended"
        /\ docs[d].charges[s1] = 1
        /\ state0[s2] = "active" /\ state[s2] = "active"
        /\ docs[d].charges[s2] = 1

\* C15: a call changes a subscription only from canceled to ended, with at
\* most one end() call for it; the set of subscriptions and the fields of
\* customers, providers and subscriptions that the generator reads stay.
C15_OnlyCanceledToEnded ==
    /\ [](\A s \in Subscriptions :
              /\ end_calls[s] <= 1
              /\ state[s] # state0[s] =>
                     state0[s] = "canceled" /\ state[s] = "ended")
    /\ [][/\ DOMAIN state' = DOMAIN state
          /\ config' = config
          /\ \A s \in Subscriptions :
                 state'[s] # state[s] =>
                     state[s] = "canceled" /\ state'[s] = "ended"]_vars

C15_Witness ==
    /\ pc = "done"
    /\ \E s1, s2 \in Subscriptions :
        /\ state0[s1] = "active" /\ state[s1] = "active"
        /\ Charges(s1, NewDocs) = 1
        /\ state0[s2] = "canceled" /\ state[s2] = "ended"
        /\ end_calls[s2] = 1

\* a full run was aborted inside the subscription loop of a customer with
\* consolidated billing: a subscription of the loop is current or left
AbortedInConsLoop ==
    /\ pc = "aborted"
    /\ entry = "all"
    /\ customer # NoOne
    /\ consolidated_billing[customer]
    /\ (subTodo # {} \/ subscription # NoOne)

\* C17: after an abort inside the subscription loop of the consolidated
\* path no document of that customer is issued, and the subscriptions the
\* loop has ended are ended.
C17_AbortInLoopIssuesNothing ==
    AbortedInConsLoop =>
        /\ \A d \in DocsFor(customer) :
               docs[d].state = "draft" /\ docs[d].issue_calls = 0
        /\ \A s \in Subscriptions :
               (end_calls[s] = 1 /\ s # subscription) => state[s] = "ended"

C17_Witness ==
    /\ AbortedInConsLoop
    /\ \E d \in DocsFor(customer) : \E s \in Subscriptions :
        /\ default_document_state[docs[d].provider] = "issued"
        /\ docs[d].charges[s] = 1
        /\ s # subscription
        /\ state[s] = "ended"

\* C18: whatever the order of the subscription loop and of the issuing loop,
\* a finished consolidated path leaves one and the same result: a document
\* for each provider of an eligible subscription, on it the charges of that
\* provider's eligible subscriptions, each canceled one of them ended, and
\* the document in its provider's default_document_state.
C18_OrderIndependent ==
    FullRunDone =>
        \A c \in Customers :
            consolidated_billing[c] =>
                /\ {docs[d].provider : d \in DocsFor(c)} =
                       EligibleProviders(c)
                /\ \A d \in DocsFor(c) :
                       /\ docs[d].charges =
                              [s \in Subscriptions |->
                                   IF /\ s \in EligibleSubs(c)
                                      /\ sub_provider[s] = docs[d].provider
                                   THEN 1 ELSE 0]
                       /\ docs[d].state =
                              default_document_state[docs[d].provider]
                /\ \A d1, d2 \in DocsFor(c) :
                       docs[d1].provider = docs[d2].provider => d1 = d2
                /\ \A s \in Subscriptions :
                       sub_customer[s] = c =>
                           state[s] =
                               IF s \in EligibleSubs(c)
                                      /\ state0[s] = "canceled"
                               THEN "ended" ELSE state0[s]

\* the last eligible subscription of the customer opened the document of
\* its provider, which another subscription shares: it was not iterated last
C18_Witness ==
    /\ FullRunDone
    /\ \E d \in NewDocs : \E s \in Subscriptions :
        /\ consolidated_billing[docs[d].customer]
        /\ docs[d].created_for = NumSubscriptions
        /\ s < NumSubscriptions
        /\ docs[d].charges[s] = 1
        /\ Cardinality(DocsFor(docs[d].customer)) = 2

\* the number of charges on document d
RECURSIVE Lines(_, _)
Lines(d, S) ==
    IF S = {} THEN 0
    ELSE LET s == CHOOSE x \in S : TRUE
         IN  docs[d].charges[s] + Lines(d, S \ {s})

\* C19: a document without a charge is the document whose charge is about to
\* be appended, or the document at whose charge the call was aborted; when
\* a call has returned every document carries a charge.
C19_NoEmptyDocument ==
    \A d \in DOMAIN docs :
        Lines(d, Subscriptions) = 0 =>
            /\ d = document
            /\ d \in NewDocs
            /\ pc \in {"cons_charge", "sep_charge", "one_charge", "aborted"}

C19_Witness ==
    /\ pc = "aborted"
    /\ document # NoDoc
    /\ Lines(document, Subscriptions) = 0
    /\ \E d \in NewDocs : Lines(d, Subscriptions) = 1
\* C14: in a full run the billing date is the first of the month of the one
\* clock reading made on entry, and every should_be_billed question, every
\* charge append and every due date of the run uses it, also after the
\* clock has moved into the next month.
C14_OneBillingDate ==
    entry = "all" =>
        /\ billing_date = Date(MonthOf(now), 1)
        /\ asked \subseteq {billing_date}
        /\ \A d \in NewDocs :
               /\ docs[d].billing_dates \subseteq {billing_date}
               /\ docs[d].due_date =
                      billing_date + payment_due_days(docs[d].customer)

C14_Witness ==
    /\ FullRunDone
    /\ now = MonthEnd
    /\ MonthOf(today) # MonthOf(now)
    /\ asked = {Date(6, 1)}
    /\ \E d1, d2 \in NewDocs :
        /\ docs[d1].customer # docs[d2].customer
        /\ MonthOf(docs[d1].created_on) = 6
        /\ MonthOf(docs[d2].created_on) = 7
        /\ docs[d2].billing_dates = {Date(6, 1)}
        /\ docs[d2].due_date =
               Date(6, 1) + payment_due_days(docs[d2].customer)

\* what a run has done to the documents: customer, provider, charges, state
\* and due date of each document it created
Outcome ==
    {[customer |-> docs[d].customer, provider |-> docs[d].provider,
      charges |-> docs[d].charges, state |-> docs[d].state,
      due_date |-> docs[d].due_date] : d \in NewDocs}

\* what a full run that takes the customers one after another does to the
\* documents of customer c (C1, C2, C3, C8, C11)
SequentialOutcome(c) ==
    IF consolidated_billing[c]
    THEN {[customer |-> c, provider |-> p,
           charges |-> [s \in Subscriptions |->
                            IF s \in EligibleSubs(c) /\ sub_provider[s] = p
                            THEN 1 ELSE 0],
           state |-> default_document_state[p],
           due_date |-> billing_date + payment_due_days(c)] :
              p \in EligibleProviders(c)}
    ELSE {[customer |-> c, provider |-> sub_provider[s],
           charges |-> OnlyCharge(s),
           state |-> default_document_state[sub_provider[s]],
           due_date |-> billing_date + payment_due_days(c)] :
              s \in EligibleSubs(c)}

\* C16: however the calls for the customers are suspended and resumed, a
\* finished full run leaves the documents, charges, document states and
\* subscription states of the run that takes the customers one after
\* another, which is one of the behaviours.
C16_CustomersIndependent ==
    pc = "done" =>
        /\ Outcome = UNION {SequentialOutcome(c) : c \in Customers}
        /\ Cardinality(NewDocs) = Cardinality(Outcome)
        /\ \A s \in Subscriptions :
               state[s] = IF EligibleAtStart(s) /\ state0[s] = "canceled"
                          THEN "ended" ELSE state0[s]

C16_Witness ==
    /\ pc = "done"
    /\ runs = 1
    /\ interleaved
    /\ \E d1, d2 \in NewDocs :
        /\ docs[d1].customer # docs[d2].customer
        /\ docs[d1].charges[1] = 1
        /\ docs[d1].charges[2] = 1
====
